---- MODULE Spec2Model ----
(***************************************************************************)
(* Model of oasislmf/model_execution/bin.py: the run-directory, validation, *)
(* conversion, packaging and cleanup operations, over a small filesystem.   *)
(*                                                                          *)
(* A path or file name is a Python string, modelled as the sequence of its  *)
(* characters, so that os.path, glob, fnmatch and re act on it as they do   *)
(* in the code.  The filesystem is the set of its files and directories,    *)
(* each a normalised path relative to the working directory ".".            *)
(***************************************************************************)
EXTENDS Integers, Sequences, FiniteSets, TLC

VARIABLES
    files,      \* the regular files of the filesystem (normalised paths)
    dirs,       \* its directories (normalised paths)
    archive,    \* member names of the tar archive written by create_binary_tar_file
    pc,         \* the caller's position in the pipeline
    call,       \* the arguments of the operation run last
    result,     \* its outcome: [kind |-> "ok"] or the exception it raised
    before,     \* the files and directories as they were when the pipeline started
    invoked,    \* the conversion tools run by subprocess.check_call so far
    checked,    \* the tools check_conversion_tools resolved, when it succeeded
    content     \* where prepare_model_run_inputs acts: each file's bytes, named by the
                \* path of the file they were first found in

vars == <<files, dirs, archive, pc, call, result, before, invoked, checked, content>>

----------------------------------------------------------------------------
(* Strings *)

SEP == "/"

Digits == <<"0", "1", "2", "3", "4", "5", "6", "7", "8", "9">>

IsDigit(c) == \E i \in 1..10 : Digits[i] = c

DigitOrd(c) == CHOOSE i \in 1..10 : Digits[i] = c

StartsWith(s, p) == Len(s) >= Len(p) /\ SubSeq(s, 1, Len(p)) = p

EndsWith(s, p) == Len(s) >= Len(p) /\ SubSeq(s, Len(s) - Len(p) + 1, Len(s)) = p

\* sub in s
Contains(s, sub) ==
    \E i \in 0..(Len(s) - Len(sub)) : SubSeq(s, i + 1, i + Len(sub)) = sub

\* s.replace(' ', '_')
ReplaceSpaces(s) == [i \in 1..Len(s) |-> IF s[i] = " " THEN "_" ELSE s[i]]

Uppercase == <<"A", "B", "C", "D", "E", "F", "G", "H", "I", "J", "K", "L", "M",
               "N", "O", "P", "Q", "R", "S", "T", "U", "V", "W", "X", "Y", "Z">>

Lowercase == <<"a", "b", "c", "d", "e", "f", "g", "h", "i", "j", "k", "l", "m",
               "n", "o", "p", "q", "r", "s", "t", "u", "v", "w", "x", "y", "z">>

LowerOf(c) ==
    IF \E i \in 1..Len(Uppercase) : Uppercase[i] = c
    THEN Lowercase[CHOOSE i \in 1..Len(Uppercase) : Uppercase[i] = c]
    ELSE c

\* s.lower()
Lower(s) == [i \in 1..Len(s) |-> LowerOf(s[i])]

\* s.split('/')
RECURSIVE SplitAcc(_, _, _)
SplitAcc(s, cur, acc) ==
    IF s = <<>> THEN Append(acc, cur)
    ELSE IF Head(s) = SEP THEN SplitAcc(Tail(s), <<>>, Append(acc, cur))
    ELSE SplitAcc(Tail(s), Append(cur, Head(s)), acc)

Split(s) == SplitAcc(s, <<>>, <<>>)

\* '/'.join(comps)
RECURSIVE JoinComps(_)
JoinComps(comps) ==
    IF comps = <<>> THEN <<>>
    ELSE IF Len(comps) = 1 THEN comps[1]
    ELSE comps[1] \o <<SEP>> \o JoinComps(Tail(comps))

RECURSIVE RStripSep(_)
RStripSep(s) ==
    IF s # <<>> /\ s[Len(s)] = SEP THEN RStripSep(SubSeq(s, 1, Len(s) - 1)) ELSE s

\* posixpath.join(a, b)
PathJoin(a, b) ==
    IF b # <<>> /\ Head(b) = SEP THEN b
    ELSE IF a = <<>> \/ a[Len(a)] = SEP THEN a \o b
    ELSE a \o <<SEP>> \o b

\* p.rfind('/') + 1
RECURSIVE RFindSep(_, _)
RFindSep(p, i) == IF i = 0 \/ p[i] = SEP THEN i ELSE RFindSep(p, i - 1)

LastSep(p) == RFindSep(p, Len(p))

\* posixpath.split(p)[0]
Dirname(p) ==
    LET head == SubSeq(p, 1, LastSep(p))
    IN IF head # <<>> /\ RStripSep(head) # <<>> THEN RStripSep(head) ELSE head

\* posixpath.split(p)[1], os.path.basename(p)
Basename(p) == SubSeq(p, LastSep(p) + 1, Len(p))

\* the component stack of posixpath.normpath for a relative path
RECURSIVE NormAcc(_, _)
NormAcc(comps, acc) ==
    IF comps = <<>> THEN acc
    ELSE LET c == Head(comps)
         IN IF c = <<>> \/ c = <<".">> THEN NormAcc(Tail(comps), acc)
            ELSE IF c = <<".", ".">> /\ acc # <<>> /\ acc[Len(acc)] # <<".", ".">>
                 THEN NormAcc(Tail(comps), SubSeq(acc, 1, Len(acc) - 1))
            ELSE NormAcc(Tail(comps), Append(acc, c))

PathComps(p) == NormAcc(Split(p), <<>>)

\* posixpath.normpath(p); os.path.abspath(p) with "." standing for the working directory
NormPath(p) ==
    LET comps == PathComps(p)
    IN IF comps = <<>> THEN <<".">> ELSE JoinComps(comps)

RECURSIVE CommonLen(_, _)
CommonLen(a, b) ==
    IF a = <<>> \/ b = <<>> \/ Head(a) # Head(b) THEN 0
    ELSE 1 + CommonLen(Tail(a), Tail(b))

\* os.path.relpath(path, start)
RelPath(path, start) ==
    LET sl == PathComps(start)
        pl == PathComps(path)
        i == CommonLen(sl, pl)
        rel == [k \in 1..(Len(sl) - i) |-> <<".", ".">>] \o SubSeq(pl, i + 1, Len(pl))
    IN IF rel = <<>> THEN <<".">> ELSE JoinComps(rel)

\* glob.has_magic(s)
HasMagic(s) == \E i \in 1..Len(s) : s[i] \in {"*", "?", "["}

\* the index of the "]" closing the character class that pat opens, 0 if none
ClassEnd(pat) ==
    LET from == IF Len(pat) >= 2 /\ pat[2] = "!" THEN 4 ELSE 3
    IN IF \E j \in from..Len(pat) : pat[j] = "]"
       THEN CHOOSE j \in from..Len(pat) : pat[j] = "]" /\ \A k \in from..(j - 1) : pat[k] # "]"
       ELSE 0

\* c against the body of a character class: single characters and digit ranges
RECURSIVE InClass(_, _)
InClass(c, body) ==
    IF body = <<>> THEN FALSE
    ELSE IF Len(body) >= 3 /\ body[2] = "-"
         THEN \/ /\ IsDigit(c) /\ IsDigit(body[1]) /\ IsDigit(body[3])
                 /\ DigitOrd(body[1]) <= DigitOrd(c) /\ DigitOrd(c) <= DigitOrd(body[3])
              \/ (~(IsDigit(body[1]) /\ IsDigit(body[3])) /\ c \in {body[1], body[3]})
              \/ InClass(c, SubSeq(body, 4, Len(body)))
    ELSE c = body[1] \/ InClass(c, Tail(body))

\* fnmatch.fnmatch(name, pat)
RECURSIVE FnMatch(_, _)
FnMatch(name, pat) ==
    IF pat = <<>> THEN name = <<>>
    ELSE IF Head(pat) = "*"
         THEN FnMatch(name, Tail(pat)) \/ (name # <<>> /\ FnMatch(Tail(name), pat))
    ELSE IF Head(pat) = "?" THEN name # <<>> /\ FnMatch(Tail(name), Tail(pat))
    ELSE IF Head(pat) = "[" /\ ClassEnd(pat) # 0
         THEN LET j == ClassEnd(pat)
                  neg == pat[2] = "!"
                  body == SubSeq(pat, IF neg THEN 3 ELSE 2, j - 1)
              IN /\ name # <<>>
                 /\ (InClass(Head(name), body) # neg)
                 /\ FnMatch(Tail(name), SubSeq(pat, j + 1, Len(pat)))
    ELSE name # <<>> /\ Head(name) = Head(pat) /\ FnMatch(Tail(name), Tail(pat))

\* re.match(r'RI_\d+$', p)
ReMatchRI(p) ==
    /\ Len(p) >= 4
    /\ SubSeq(p, 1, 3) = <<"R", "I", "_">>
    /\ \A i \in 4..Len(p) : IsDigit(p[i])

----------------------------------------------------------------------------
(* The filesystem *)

\* the directory that holds the normalised path e
ParentOf(e) == IF LastSep(e) = 0 THEN <<".">> ELSE SubSeq(e, 1, LastSep(e) - 1)

\* os.path.isdir(p)
IsDirIn(ds, p) == NormPath(p) \in ds

\* os.path.exists(p), os.path.lexists(p)
ExistsIn(fs, ds, p) ==
    LET np == NormPath(p)
    IN np \in ds \/ (np \in fs /\ (p = <<>> \/ p[Len(p)] # SEP))

\* os.listdir(d), empty where the call raises (glob ignores the error)
ListdirIn(fs, ds, d) ==
    LET nd == NormPath(d)
    IN IF nd \in ds
       THEN {Basename(e) : e \in {x \in (fs \cup ds) \ {<<".">>} : ParentOf(x) = nd}}
       ELSE {}

\* glob._glob1(dirname, pattern)
Glob1(fs, ds, dirname, pattern) ==
    {n \in ListdirIn(fs, ds, IF dirname = <<>> THEN <<".">> ELSE dirname) :
        /\ (Head(pattern) # "." => Head(n) # ".")
        /\ FnMatch(n, pattern)}

\* glob._glob0(dirname, basename)
Glob0(fs, ds, dirname, basename) ==
    IF basename = <<>>
    THEN IF IsDirIn(ds, dirname) THEN {basename} ELSE {}
    ELSE IF ExistsIn(fs, ds, PathJoin(dirname, basename)) THEN {basename} ELSE {}

\* glob.glob(pathname)
RECURSIVE Glob(_, _, _)
Glob(fs, ds, pathname) ==
    LET dirname == Dirname(pathname)
        basename == Basename(pathname)
    IN IF ~HasMagic(pathname)
       THEN IF basename # <<>>
            THEN IF ExistsIn(fs, ds, pathname) THEN {pathname} ELSE {}
            ELSE IF IsDirIn(ds, dirname) THEN {pathname} ELSE {}
       ELSE IF dirname = <<>> THEN Glob1(fs, ds, <<>>, basename)
       ELSE LET found == IF dirname # pathname /\ HasMagic(dirname)
                         THEN Glob(fs, ds, dirname)
                         ELSE {dirname}
            IN UNION {{PathJoin(d, n) :
                          n \in IF HasMagic(basename)
                                THEN Glob1(fs, ds, d, basename)
                                ELSE Glob0(fs, ds, d, basename)} : d \in found}

\* every directory above p, up to the working directory
RECURSIVE Ancestors(_)
Ancestors(p) ==
    IF Dirname(p) = <<>> THEN {<<".">>}
    ELSE {Dirname(p)} \cup Ancestors(Dirname(p))

----------------------------------------------------------------------------
(* The file-type registry (oasislmf/model_execution/files.py) *)

TAR_FILE == <<"i", "n", "p", "u", "t", "s", ".", "t", "a", "r", ".", "g", "z">>

GUL_INPUT_FILES ==
    {[name |-> <<"i", "t", "e", "m", "s">>, type |-> "gul", conversion_tool |-> "itemtobin"]}

IL_INPUT_FILES ==
    {[name |-> <<"f", "m", "_", "x", "r", "e", "f">>, type |-> "il", conversion_tool |-> "fmxreftobin"]}

OPTIONAL_INPUT_FILES ==
    {[name |-> <<"e", "v", "e", "n", "t", "s">>, type |-> "optional", conversion_tool |-> "evetobin"]}

INPUT_FILES == GUL_INPUT_FILES \cup IL_INPUT_FILES \cup OPTIONAL_INPUT_FILES

CSV == <<".", "c", "s", "v">>

BIN == <<".", "b", "i", "n">>

----------------------------------------------------------------------------
(* Outcomes: an operation returns, or raises one exception *)

Ok == [kind |-> "ok", path |-> <<>>, tool |-> ""]

Raise(kind, path) == [kind |-> kind, path |-> path, tool |-> ""]

RaiseTool(kind, tool) == [kind |-> kind, path |-> <<>>, tool |-> tool]

----------------------------------------------------------------------------
(* Input Validator *)

\* the names _check_each_inputs_directory iterates over
CheckedInputFiles(do_il) ==
    {f.name : f \in {g \in INPUT_FILES :
        IF do_il THEN g.type # "optional" ELSE g.type \notin {"optional", "il"}}}

\* _check_each_inputs_directory with the two tests of its loop in the other order
check_each_inputs_directory_bin_first(fs, ds, directory_to_check, do_il, check_binaries) ==
    LET csv(n) == PathJoin(directory_to_check, n \o CSV)
        bin(n) == PathJoin(directory_to_check, n \o BIN)
        raising == {n \in CheckedInputFiles(do_il) :
                      \/ ~ExistsIn(fs, ds, csv(n))
                      \/ (check_binaries /\ ExistsIn(fs, ds, bin(n)))}
    IN IF raising = {} THEN {Ok}
       ELSE {IF check_binaries /\ ExistsIn(fs, ds, bin(n))
             THEN Raise("Binary file already exists", bin(n))
             ELSE Raise("Failed to find", csv(n)) : n \in raising}

\* What _check_each_inputs_directory can do: the loop raises at the first name, in
\* the registry's (unspecified) iteration order, whose CSV is missing or whose
\* binary exists.
check_each_inputs_directory(fs, ds, directory_to_check, do_il, check_binaries) ==
    LET csv(n) == PathJoin(directory_to_check, n \o CSV)
        bin(n) == PathJoin(directory_to_check, n \o BIN)
        raising == {n \in CheckedInputFiles(do_il) :
                      \/ ~ExistsIn(fs, ds, csv(n))
                      \/ (check_binaries /\ ExistsIn(fs, ds, bin(n)))}
    IN IF raising = {} THEN {Ok}
       ELSE {IF ~ExistsIn(fs, ds, csv(n))
             THEN Raise("Failed to find", csv(n))
             ELSE Raise("Binary file already exists", bin(n)) : n \in raising}

\* the pattern check_inputs_directory hands to glob.glob: '{}{}RI_\d+$'
RiCheckPattern(directory_to_check) ==
    directory_to_check \o <<SEP>> \o <<"R", "I", "_", "\\", "d", "+", "$">>

\* What check_inputs_directory can do.
check_inputs_directory(fs, ds, directory_to_check, do_il, do_ri, check_binaries) ==
    LET top == check_each_inputs_directory(fs, ds, directory_to_check, do_il, check_binaries)
        ri_dirs == Glob(fs, ds, RiCheckPattern(directory_to_check))
        ri_raised == UNION {check_each_inputs_directory(fs, ds, r, TRUE, check_binaries) \ {Ok} :
                              r \in ri_dirs}
    IN IF top # {Ok} \/ ~do_ri THEN top
       ELSE IF ri_raised = {} THEN {Ok}
       ELSE ri_raised

----------------------------------------------------------------------------
(* Cleanup *)

\* the paths cleanup_bin_directory removes when they exist
CleanupTargets(directory) ==
    {PathJoin(directory, f) : f \in {TAR_FILE} \cup {g.name \o BIN : g \in INPUT_FILES}}

\* the files left by cleanup_bin_directory
cleanup_bin_directory(fs, ds, directory) ==
    fs \ {NormPath(p) : p \in {q \in CleanupTargets(directory) : ExistsIn(fs, ds, q)}}

----------------------------------------------------------------------------
(* Binary Converter *)

\* the registry entries _create_set_of_binary_files iterates over
ConvertedInputFiles(do_il) ==
    IF do_il THEN INPUT_FILES ELSE {f \in INPUT_FILES : f.type # "il"}

\* What one pass of _create_set_of_binary_files can do from st = [files, dirs,
\* invoked, result].  Every entry whose CSV exists is converted by the shell command
\* "<tool> < <csv> > <bin>"; the shell creates <bin> before it runs the tool, and the
\* tool exits with a status the model does not decide.  The first non-zero status, in
\* the registry's (unspecified) iteration order, ends the pass with an exception.
create_set_of_binary_files(st, csv_directory, bin_directory, do_il) ==
    LET made == IF ExistsIn(st.files, st.dirs, bin_directory)
                THEN st.dirs
                ELSE st.dirs \cup {NormPath(bin_directory)}
        present == {f \in ConvertedInputFiles(do_il) :
                      ExistsIn(st.files, st.dirs, PathJoin(csv_directory, f.name \o CSV))}
        out(f) == NormPath(PathJoin(bin_directory, f.name \o BIN))
        ran(fset, res) ==
            [files |-> st.files \cup {out(f) : f \in fset},
             dirs |-> made,
             invoked |-> st.invoked \cup {f.conversion_tool : f \in fset},
             result |-> res]
    IN IF ~ExistsIn(st.files, st.dirs, bin_directory) /\ ~IsDirIn(st.dirs, Dirname(bin_directory))
       THEN {[st EXCEPT !.result = Raise("OSError", bin_directory)]}
       ELSE {ran(present, Ok)}
            \cup {ran(done \cup {m}, RaiseTool("CalledProcessError", m.conversion_tool)) :
                     m \in present, done \in SUBSET present}

\* the passes over the RI directories, in the (unspecified) order glob lists them
RECURSIVE RiPasses(_, _, _, _)
RiPasses(st, remaining, csvdir, bindir) ==
    IF st.result # Ok \/ remaining = {} THEN {st}
    ELSE UNION {UNION {RiPasses(next, remaining \ {ri_csvdir}, csvdir, bindir) :
                          next \in create_set_of_binary_files(
                                      st, ri_csvdir, PathJoin(bindir, Basename(ri_csvdir)), TRUE)} :
                   ri_csvdir \in remaining}

\* What create_binary_files can do.
create_binary_files(fs, ds, inv, csv_directory, bin_directory, do_il, do_ri) ==
    LET csvdir == NormPath(csv_directory)
        bindir == NormPath(bin_directory)
        top == create_set_of_binary_files(
                   [files |-> fs, dirs |-> ds, invoked |-> inv, result |-> Ok],
                   csvdir, bindir, do_il \/ do_ri)
    IN IF ~do_ri THEN top
       ELSE UNION {RiPasses(st, Glob(st.files, st.dirs,
                                     csvdir \o <<SEP>> \o <<"R", "I", "_", "[", "0", "-", "9", "]", "*">>),
                            csvdir, bindir) : st \in top}

----------------------------------------------------------------------------
(* Archive Packager *)

StarBin == <<"*", ".", "b", "i", "n">>

\* create_binary_tar_file without its second glob
create_binary_tar_file_top_only(fs, ds, directory) ==
    {RelPath(f, directory) : f \in Glob(fs, ds, directory \o <<"*", SEP>> \o StarBin)}

\* the member names create_binary_tar_file stores
create_binary_tar_file(fs, ds, directory) ==
    {RelPath(f, directory) :
        f \in Glob(fs, ds, directory \o <<"*", SEP>> \o StarBin)
              \cup Glob(fs, ds, directory \o <<"*", SEP, "*", SEP>> \o StarBin)}

\* check_binary_tar_file looking up the GUL names whatever check_il is
check_binary_tar_file_gul_only(members, check_il) ==
    LET missing(fset) == {f.name \o BIN : f \in fset} \ members
    IN IF missing(GUL_INPUT_FILES) # {}
       THEN {Raise("is missing from the tar file", m) : m \in missing(GUL_INPUT_FILES)}
       ELSE {Ok}

\* What check_binary_tar_file can do on an archive with these members: the GUL names
\* are looked up before the IL names, each group in the registry's order.
check_binary_tar_file(members, check_il) ==
    LET missing(fset) == {f.name \o BIN : f \in fset} \ members
    IN IF missing(GUL_INPUT_FILES) # {}
       THEN {Raise("is missing from the tar file", m) : m \in missing(GUL_INPUT_FILES)}
       ELSE IF check_il /\ missing(IL_INPUT_FILES) # {}
       THEN {Raise("is missing from the tar file", m) : m \in missing(IL_INPUT_FILES)}
       ELSE {Ok}

----------------------------------------------------------------------------
(* Tool Availability Checker *)

\* the registry entries check_conversion_tools iterates over
ToolCheckedInputFiles(do_il) ==
    IF do_il THEN INPUT_FILES ELSE {f \in INPUT_FILES : f.type # "il"}

\* What check_conversion_tools can do when shutilwhich.which resolves the tools of
\* `resolvable`.
check_conversion_tools(resolvable, do_il) ==
    LET tools == {f.conversion_tool : f \in ToolCheckedInputFiles(do_il)}
    IN IF tools \subseteq resolvable THEN {Ok}
       ELSE {RaiseTool("Failed to find conversion tool", tl) : tl \in tools \ resolvable}

----------------------------------------------------------------------------
(* Topology Builder *)

\* the entries at or below the normalised path top
Subtree(entries, top) == {e \in entries : e = top \/ StartsWith(e, top \o <<SEP>>)}

\* e, an entry at or below `from`, carried to the same place at or below `to`
Rebase(e, from, to) == to \o SubSeq(e, Len(from) + 1, Len(e))

\* Path(p).mkdir(parents=True, exist_ok=True)
Mkdirs(st, p) ==
    LET np == NormPath(p)
    IN IF st.result # Ok THEN st
       ELSE IF (Ancestors(np) \cup {np}) \cap st.files # {}
       THEN [st EXCEPT !.result = Raise("OSError", p)]
       ELSE [st EXCEPT !.dirs = @ \cup {np} \cup Ancestors(np)]

\* tarfile.extractall(path=p): every member is written below p, its directories made
\* on the way; a member name with ".." components leaves p
ExtractAll(st, members, p) ==
    LET targets == {NormPath(PathJoin(p, m)) : m \in members}
        made == UNION {Ancestors(f) : f \in targets}
    IN IF made \cap st.files # {} \/ targets \cap st.dirs # {}
       THEN [st EXCEPT !.result = Raise("OSError", p)]
       ELSE [st EXCEPT !.files = @ \cup targets, !.dirs = @ \cup made]

\* shutil.move(src, dst_dir): src goes into the existing directory dst_dir under its own name
Move(st, src, dst_dir) ==
    LET from == NormPath(src)
        to == NormPath(PathJoin(dst_dir, Basename(from)))
    IN IF ExistsIn(st.files, st.dirs, to)
       THEN [st EXCEPT !.result = Raise("OSError", to)]
       ELSE [st EXCEPT
                !.files = (@ \ Subtree(@, from)) \cup {Rebase(e, from, to) : e \in Subtree(@, from)},
                !.dirs = (@ \ Subtree(@, from)) \cup {Rebase(e, from, to) : e \in Subtree(@, from)}]

\* the loop of shutil.move calls, in the order os.listdir gives
RECURSIVE MoveRiDirs(_, _, _, _)
MoveRiDirs(st, remaining, p, run_dir_path) ==
    IF st.result # Ok \/ remaining = {} THEN {st}
    ELSE UNION {MoveRiDirs(Move(st, PathJoin(p, ri_dir), run_dir_path),
                           remaining \ {ri_dir}, p, run_dir_path) : ri_dir \in remaining}

\* shutil.copytree(src, dst)
CopyTree(st, src, dst) ==
    LET from == NormPath(src)
        to == NormPath(dst)
    IN IF ~IsDirIn(st.dirs, from) \/ ExistsIn(st.files, st.dirs, to)
          \/ Ancestors(to) \cap st.files # {}
       THEN [st EXCEPT !.result = Raise("OSError", dst)]
       ELSE [st EXCEPT
                !.files = @ \cup {Rebase(e, from, to) : e \in Subtree(st.files, from)},
                !.dirs = @ \cup Ancestors(to)
                           \cup {Rebase(e, from, to) : e \in Subtree(st.dirs, from)}]

\* shutil.copy2(src, dst), shutil.copyfile(src, dst): into dst when it is a directory
\* (copy2 alone), else onto the path dst
CopyFile(st, src, dst, into_dir) ==
    LET from == NormPath(src)
        to == IF into_dir /\ IsDirIn(st.dirs, dst)
              THEN NormPath(PathJoin(dst, Basename(from)))
              ELSE NormPath(dst)
    IN IF from \notin st.files \/ to \in st.dirs \/ ~IsDirIn(st.dirs, ParentOf(to))
       THEN [st EXCEPT !.result = Raise("OSError", src)]
       ELSE [st EXCEPT !.files = @ \cup {to}]

RiLayersJson == <<"r", "i", "_", "l", "a", "y", "e", "r", "s", ".", "j", "s", "o", "n">>

\* the loop over os.listdir(oasis_files_src_path), in the order it gives
RECURSIVE CopyOasisFiles(_, _, _, _, _)
CopyOasisFiles(st, remaining, oasis_files_src_path, oasis_files_destpath, run_dir_path) ==
    IF st.result # Ok \/ remaining = {} THEN {st}
    ELSE UNION {
        LET src_fp == PathJoin(oasis_files_src_path, q)
            copied ==
                IF ~(ReMatchRI(q) \/ q = RiLayersJson)
                THEN CopyFile(st, src_fp, oasis_files_destpath, TRUE)
                ELSE IF ReMatchRI(q)
                     THEN CopyTree(st, src_fp, PathJoin(run_dir_path, q))
                     ELSE CopyFile(st, src_fp, PathJoin(run_dir_path, q), TRUE)
        IN CopyOasisFiles(copied, remaining \ {q}, oasis_files_src_path,
                          oasis_files_destpath, run_dir_path) : q \in remaining}

\* os.symlink(path, link): the link stands for what it points to
Symlink(st, path, link) ==
    LET from == NormPath(path)
        to == NormPath(link)
    IN [st EXCEPT
           !.files = @ \cup {Rebase(e, from, to) : e \in Subtree(st.files, from)},
           !.dirs = @ \cup {Rebase(e, from, to) : e \in Subtree(st.dirs, from)}]

\* the loop over glob(model_data_src_path/*): a link, or a copy of the whole source
\* tree when os.symlink raises, which it does for an existing name and may do on a
\* filesystem without links
RECURSIVE LinkModelData(_, _, _, _)
LinkModelData(st, remaining, model_data_src_path, model_data_dest_path) ==
    IF st.result # Ok \/ remaining = {} THEN {st}
    ELSE UNION {
        LET link == PathJoin(model_data_dest_path, Basename(path))
            copied == CopyTree(st, model_data_src_path, link)
            linked == IF ExistsIn(st.files, st.dirs, link)
                      THEN {copied}
                      ELSE {Symlink(st, path, link), copied}
        IN UNION {LinkModelData(next, remaining \ {path}, model_data_src_path,
                                model_data_dest_path) : next \in linked} : path \in remaining}

Sub_fifo == <<"f", "i", "f", "o">>

Sub_output == <<"o", "u", "t", "p", "u", "t">>

Sub_static == <<"s", "t", "a", "t", "i", "c">>

Sub_work == <<"w", "o", "r", "k">>

Sub_input == <<"i", "n", "p", "u", "t">>

Sub_csv == <<"c", "s", "v">>

AnalysisSettingsJson ==
    <<"a", "n", "a", "l", "y", "s", "i", "s", "_", "s", "e", "t", "t", "i", "n", "g", "s",
      ".", "j", "s", "o", "n">>

\* the four Path(run_dir_path, subdir).mkdir calls
MakeSubdirs(st, run_dir_path) ==
    Mkdirs(Mkdirs(Mkdirs(Mkdirs(st, PathJoin(run_dir_path, Sub_fifo)),
                         PathJoin(run_dir_path, Sub_output)),
                  PathJoin(run_dir_path, Sub_static)),
           PathJoin(run_dir_path, Sub_work))

\* the input directory: made, or filled from the archive and its RI_ entries moved up
MakeInput(st, members, run_dir_path, ri, inputs_archive) ==
    LET p == PathJoin(run_dir_path, Sub_input)
    IN IF st.result # Ok THEN {st}
       ELSE IF inputs_archive = <<>>
       THEN {IF ~ri THEN Mkdirs(st, PathJoin(p, Sub_csv)) ELSE Mkdirs(st, p)}
       ELSE IF ~ExistsIn(st.files, st.dirs, inputs_archive)
       THEN {[st EXCEPT !.result = Raise("OSError", inputs_archive)]}
       ELSE LET ex == ExtractAll(st, members, p)
                moved == IF ex.result # Ok THEN {ex}
                         ELSE IF ~IsDirIn(ex.dirs, p)
                         THEN {[ex EXCEPT !.result = Raise("OSError", p)]}
                         ELSE MoveRiDirs(ex, {d \in ListdirIn(ex.files, ex.dirs, p) :
                                                 Contains(d, <<"R", "I", "_">>)},
                                         p, run_dir_path)
            IN \* a tarfile that filters its members refuses one that leaves p
               moved \cup IF \E m \in members : ~StartsWith(NormPath(PathJoin(p, m)),
                                                            NormPath(p) \o <<SEP>>)
                          THEN {[st EXCEPT !.result = Raise("TarError", inputs_archive)]}
                          ELSE {}

\* the Oasis files copied from oasis_files_src_path
CopySource(st, run_dir_path, oasis_files_src_path, ri) ==
    LET oasis_files_destpath ==
            IF ~ri THEN PathJoin(PathJoin(run_dir_path, Sub_input), Sub_csv)
            ELSE PathJoin(run_dir_path, Sub_input)
    IN IF st.result # Ok
          \/ oasis_files_src_path = <<>> \/ oasis_files_src_path = oasis_files_destpath
       THEN {st}
       ELSE IF ~IsDirIn(st.dirs, oasis_files_src_path)
       THEN {[st EXCEPT !.result = Raise("OSError", oasis_files_src_path)]}
       ELSE CopyOasisFiles(st, ListdirIn(st.files, st.dirs, oasis_files_src_path),
                           oasis_files_src_path, oasis_files_destpath, run_dir_path)

\* the analysis settings copied to the run directory
CopySettings(st, run_dir_path, analysis_settings_json_src_file_path) ==
    IF st.result # Ok \/ analysis_settings_json_src_file_path = <<>> THEN st
    ELSE CopyFile(st, analysis_settings_json_src_file_path,
                  PathJoin(run_dir_path, AnalysisSettingsJson), FALSE)

\* the model data linked or copied into static
LinkStatic(st, run_dir_path, model_data_src_path) ==
    IF st.result # Ok \/ model_data_src_path = <<>> THEN {st}
    ELSE LinkModelData(st, Glob(st.files, st.dirs, PathJoin(model_data_src_path, <<"*">>)),
                       model_data_src_path, PathJoin(run_dir_path, Sub_static))

\* What prepare_model_run_directory can do on a filesystem and an archive with the
\* given members: the filesystems it leaves, each with the outcome.  An exception
\* leaves what was done before it.
prepare_model_run_directory(fs, ds, members, run_dir_path, oasis_files_src_path, ri, analysis_settings_json_src_file_path, model_data_src_path, inputs_archive) ==
    LET s0 == [files |-> fs, dirs |-> ds, result |-> Ok]
        s1 == MakeSubdirs(s0, run_dir_path)
        s2 == MakeInput(s1, members, run_dir_path, ri, inputs_archive)
        s3 == UNION {CopySource(st, run_dir_path, oasis_files_src_path, ri) : st \in s2}
        s4 == {CopySettings(st, run_dir_path, analysis_settings_json_src_file_path) : st \in s3}
    IN UNION {LinkStatic(st, run_dir_path, model_data_src_path) : st \in s4}

----------------------------------------------------------------------------
(* The directories and files of the model's filesystems *)

\* the largest number of files and optional directories a filesystem starts with
MaxEntries == 4

\* the reinsurance layers RI_1 .. RI_<MaxRI> a directory may hold
MaxRI == 1

D == <<"d">>

\* the ways a caller writes the directory's path
DirArgs == {D, D \o <<SEP>>}

RiName(k) == <<"R", "I", "_">> \o <<Digits[k + 1]>>

RiNames == {RiName(k) : k \in 1..MaxRI}

\* a directory whose name is, character for character, the text RI_\d+$
RiPatternName == <<"R", "I", "_", "\\", "d", "+", "$">>

Items == <<"i", "t", "e", "m", "s">>

FmXref == <<"f", "m", "_", "x", "r", "e", "f">>

Events == <<"e", "v", "e", "n", "t", "s">>

NoCall ==
    [op |-> "none", prev |-> "none", directory |-> <<>>, do_il |-> FALSE, do_ri |-> FALSE,
     check_binaries |-> FALSE, csv_directory |-> <<>>, tar_directory |-> <<>>,
     check_il |-> FALSE, tools_il |-> FALSE, oasis_files_src_path |-> <<>>, ri |-> FALSE,
     analysis_settings_json_src_file_path |-> <<>>, model_data_src_path |-> <<>>,
     inputs_archive |-> <<>>]

\* the filesystems that hold at most MaxEntries of the given files and optional directories
Filesystems(fileChoices, dirChoices, fixedDirs) ==
    {[files |-> X \cap fileChoices,
      dirs |-> fixedDirs \cup (X \cap dirChoices) \cup UNION {Ancestors(f) : f \in X}] :
        X \in {Y \in SUBSET (fileChoices \cup dirChoices) : Cardinality(Y) <= MaxEntries}}

----------------------------------------------------------------------------
(* Validation of an inputs directory, directly or after a cleanup *)

LayerDirs == {PathJoin(D, r) : r \in RiNames \cup {RiPatternName}}

CheckFileChoices ==
    {PathJoin(D, n) : n \in {Items \o CSV, FmXref \o CSV, Items \o BIN, FmXref \o BIN, Events \o BIN}}
    \cup {PathJoin(l, n) : l \in LayerDirs, n \in {Items \o CSV, FmXref \o CSV, Items \o BIN}}

InitCheck ==
    /\ \E fsys \in Filesystems(CheckFileChoices, LayerDirs, {<<".">>, D}) :
          /\ files = fsys.files
          /\ dirs = fsys.dirs
          /\ before = fsys
    /\ archive = {}
    /\ pc = "start"
    /\ call = NoCall
    /\ result = Ok
    /\ invoked = {}
    /\ checked = {}
    /\ content = <<>>

\* cleanup_bin_directory(D), run when the caller is at `from`
CleanupBinDirectory(from) ==
    /\ pc = from
    /\ files' = cleanup_bin_directory(files, dirs, D)
    /\ call' = [call EXCEPT !.op = "cleanup_bin_directory", !.prev = call.op, !.directory = D]
    /\ result' = Ok
    /\ pc' = "cleaned"
    /\ UNCHANGED <<dirs, archive, before, invoked, checked, content>>

\* check_inputs_directory(D, do_il, do_ri, check_binaries)
CheckInputsDirectory ==
    /\ pc \in {"start", "cleaned"}
    /\ \E do_il \in BOOLEAN, do_ri \in BOOLEAN, check_binaries \in BOOLEAN :
          /\ result' \in check_inputs_directory(files, dirs, D, do_il, do_ri, check_binaries)
          /\ call' = [call EXCEPT !.op = "check_inputs_directory", !.prev = call.op,
                                  !.directory = D, !.do_il = do_il, !.do_ri = do_ri,
                                  !.check_binaries = check_binaries]
    /\ pc' = "validated"
    /\ UNCHANGED <<files, dirs, archive, before, invoked, checked, content>>

NextCheck == CleanupBinDirectory("start") \/ CheckInputsDirectory

SpecCheck == InitCheck /\ [][NextCheck]_vars

\* the subdirectories named RI_<digits> directly under directory
RiLayersOf(ds, directory) ==
    {l \in ds \ {<<".">>} : ParentOf(l) = NormPath(directory) /\ ReMatchRI(Basename(l))}

\* directory lacks the CSV of a name of the file set, or holds its binary
LacksCsv(directory, do_il) ==
    \E n \in CheckedInputFiles(do_il) : ~ExistsIn(files, dirs, PathJoin(directory, n \o CSV))

HoldsBin(directory, do_il) ==
    \E n \in CheckedInputFiles(do_il) : ExistsIn(files, dirs, PathJoin(directory, n \o BIN))

\* C1: with do_ri, the check fails when some RI_<digits> subdirectory lacks a required
\* (core or IL) CSV or, with check_binaries, already holds a required binary.
C1_RiLayersChecked ==
    (pc = "validated" /\ call.do_ri) =>
        \A l \in RiLayersOf(dirs, call.directory) :
            (LacksCsv(l, TRUE) \/ (call.check_binaries /\ HoldsBin(l, TRUE))) => result # Ok

\* C4: a check with check_binaries run right after cleanup_bin_directory never raises
\* "Binary file already exists".
C4_NoStaleBinaryAfterCleanup ==
    (pc = "validated" /\ call.prev = "cleanup_bin_directory" /\ call.check_binaries) =>
        result.kind # "Binary file already exists"

\* C5 as stated: with check_binaries the check fails if and only if some required binary
\* exists alongside its CSV in the checked directory.
C5_FailsIffBinaryBesideCsv ==
    (pc = "validated" /\ call.check_binaries) =>
        (result # Ok <=>
            \E n \in CheckedInputFiles(call.do_il) :
                /\ ExistsIn(files, dirs, PathJoin(call.directory, n \o BIN))
                /\ ExistsIn(files, dirs, PathJoin(call.directory, n \o CSV)))

\* C5 as amended: with check_binaries the check fails whenever the directory lacks a
\* required CSV or holds a required binary; "Binary file already exists" is raised only
\* for a required binary that exists alongside its CSV; and without do_ri there is no
\* other failure.
C5_FailsOnMissingCsvOrBinary ==
    (pc = "validated" /\ call.check_binaries) =>
        /\ (LacksCsv(call.directory, call.do_il) \/ HoldsBin(call.directory, call.do_il))
              => result # Ok
        /\ result.kind = "Binary file already exists" =>
              /\ EndsWith(result.path, BIN)
              /\ Basename(SubSeq(result.path, 1, Len(result.path) - Len(BIN)))
                    \in CheckedInputFiles(TRUE)
              /\ ExistsIn(files, dirs, result.path)
              /\ ExistsIn(files, dirs, SubSeq(result.path, 1, Len(result.path) - Len(BIN)) \o CSV)
        /\ (~call.do_ri /\ result # Ok)
              => (LacksCsv(call.directory, call.do_il) \/ HoldsBin(call.directory, call.do_il))

\* C5's case: the check raised for a binary left beside its CSV
C5_Witness ==
    /\ pc = "validated"
    /\ call.check_binaries
    /\ result.kind = "Binary file already exists"

----------------------------------------------------------------------------
(* Conversion, packaging, then archive validation or cleanup *)

\* a sibling of D whose name begins with D's, and a subdirectory that is no RI layer
D2 == <<"d", "2">>

Sub == PathJoin(D, <<"s", "u", "b">>)

\* a directory of CSV files apart from the directory of binaries
C == <<"c">>

BinFileChoices ==
    {PathJoin(D, n) : n \in {Items \o CSV, FmXref \o CSV, Events \o CSV, Items \o BIN}}
    \cup {PathJoin(PathJoin(D, r), n) : r \in RiNames, n \in {Items \o CSV, Items \o BIN}}
    \cup {PathJoin(D2, Items \o BIN), PathJoin(Sub, Items \o BIN)}
    \cup {PathJoin(C, Items \o CSV)}
    \cup {PathJoin(PathJoin(C, r), Items \o CSV) : r \in RiNames}

BinDirChoices == {PathJoin(D, r) : r \in RiNames}

InitBin ==
    /\ \E fsys \in Filesystems(BinFileChoices, BinDirChoices, {<<".">>, D, C}) :
          /\ files = fsys.files
          /\ dirs = fsys.dirs
          /\ before = fsys
    /\ archive = {}
    /\ pc = "start"
    /\ call = NoCall
    /\ result = Ok
    /\ invoked = {}
    /\ checked = {}
    /\ content = <<>>

\* create_binary_files(csv_directory, D, do_il, do_ri)
CreateBinaryFiles ==
    /\ pc \in {"start", "tools"}
    /\ \E csv_directory \in {D, C}, do_il \in BOOLEAN, do_ri \in BOOLEAN :
          /\ \E st \in create_binary_files(files, dirs, invoked, csv_directory, D, do_il, do_ri) :
                /\ files' = st.files
                /\ dirs' = st.dirs
                /\ invoked' = st.invoked
                /\ result' = st.result
                /\ pc' = IF st.result = Ok THEN "converted" ELSE "failed"
          /\ call' = [call EXCEPT !.op = "create_binary_files", !.prev = call.op,
                                  !.csv_directory = csv_directory, !.directory = D,
                                  !.do_il = do_il, !.do_ri = do_ri]
    /\ UNCHANGED <<archive, before, checked, content>>

\* create_binary_tar_file(directory), run when the caller is at `from`
CreateBinaryTarFile(from) ==
    /\ pc = from
    /\ \E directory \in DirArgs :
          /\ files' = files \cup {NormPath(PathJoin(directory, TAR_FILE))}
          /\ archive' = create_binary_tar_file(files', dirs, directory)
          /\ call' = [call EXCEPT !.op = "create_binary_tar_file", !.prev = call.op,
                                  !.tar_directory = directory]
    /\ result' = Ok
    /\ pc' = "packaged"
    /\ UNCHANGED <<dirs, before, invoked, checked, content>>

\* check_binary_tar_file(D/TAR_FILE, check_il)
CheckBinaryTarFile ==
    /\ pc = "packaged"
    /\ \E check_il \in BOOLEAN :
          /\ result' \in check_binary_tar_file(archive, check_il)
          /\ call' = [call EXCEPT !.op = "check_binary_tar_file", !.prev = call.op,
                                  !.check_il = check_il]
    /\ pc' = "verified"
    /\ UNCHANGED <<files, dirs, archive, before, invoked, checked, content>>

NextBin ==
    \/ CreateBinaryFiles
    \/ CreateBinaryTarFile("converted")
    \/ CheckBinaryTarFile
    \/ CleanupBinDirectory("packaged")

SpecBin == InitBin /\ [][NextBin]_vars

\* the normalised path e lies inside directory
Inside(e, directory) == StartsWith(e, NormPath(directory) \o <<SEP>>)

\* the *.bin files directly under directory and in its RI_<digits> subdirectories
LayeredBinaries(fs, ds, directory) ==
    {f \in fs :
        /\ EndsWith(f, BIN)
        /\ \/ ParentOf(f) = NormPath(directory)
           \/ ParentOf(f) \in RiLayersOf(ds, directory)}

\* C6: the archive holds every *.bin directly under the directory and every *.bin of
\* its RI_<digits> subdirectories, under its path relative to the directory, and every
\* member name denotes a file inside the directory.
C6_ArchiveHoldsLayeredBinaries ==
    pc = "packaged" =>
        /\ \A f \in LayeredBinaries(files, dirs, call.tar_directory) :
              RelPath(f, call.tar_directory) \in archive
        /\ \A m \in archive :
              /\ NormPath(PathJoin(call.tar_directory, m)) \in files
              /\ Inside(NormPath(PathJoin(call.tar_directory, m)), call.tar_directory)

\* the registry entries check_binary_tar_file requires for includeIL
RequiredMembers(includeIL) ==
    GUL_INPUT_FILES \cup (IF includeIL THEN IL_INPUT_FILES ELSE {})

\* every required member's CSV was in the CSV directory when conversion started
AllCsvExisted(includeIL) ==
    \A f \in RequiredMembers(includeIL) :
        ExistsIn(before.files, before.dirs, PathJoin(call.csv_directory, f.name \o CSV))

\* create_binary_files(csvDir, binDir, includeIL), create_binary_tar_file(binDir) and
\* check_binary_tar_file(archive, includeIL) were run in this order on one directory of
\* binaries.  create_binary_files normalises binDir, so the way binDir is written shows
\* in create_binary_tar_file alone.
ConvertPackVerify ==
    /\ pc = "verified"
    /\ ~call.do_ri
    /\ call.check_il = call.do_il
    /\ NormPath(call.tar_directory) = NormPath(call.directory)

\* C2 as stated, for a conversion that completed and a binDir written as it was for
\* create_binary_files: conversion, packaging and archive validation succeed if and only
\* if every required member's CSV existed in the CSV directory at conversion time.
C2_SucceedsIffAllCsvExisted ==
    (ConvertPackVerify /\ call.tar_directory = call.directory) =>
        (result = Ok <=> AllCsvExisted(call.do_il))

\* C2 as amended: the sequence succeeds only if every required member's CSV existed in
\* the CSV directory at conversion time or its binary was already in the binary
\* directory.
C2_SucceedsOnlyIfCsvOrBinaryExisted ==
    (ConvertPackVerify /\ result = Ok) =>
        \A f \in RequiredMembers(call.do_il) :
            \/ ExistsIn(before.files, before.dirs, PathJoin(call.csv_directory, f.name \o CSV))
            \/ ExistsIn(before.files, before.dirs, PathJoin(call.directory, f.name \o BIN))

\* C2's case: the three operations succeeded for a run with insured-loss files
C2_Witness ==
    /\ ConvertPackVerify
    /\ call.do_il
    /\ result = Ok

\* C8: for a directory that held only CSV inputs, cleanup after conversion in place and
\* packaging leaves the files under it, RI_<n> subdirectories included, as they were.
C8_CleanupRestoresDirectory ==
    (/\ pc = "cleaned"
     /\ call.csv_directory = call.directory
     /\ \A f \in before.files : Inside(f, call.directory) => EndsWith(f, CSV)) =>
        {f \in files : Inside(f, call.directory)}
            = {f \in before.files : Inside(f, call.directory)}

----------------------------------------------------------------------------
(* The tool check, then conversion *)

ToolsFileChoices ==
    {PathJoin(D, n \o CSV) : n \in {Items, FmXref, Events}}
    \cup {PathJoin(PathJoin(D, r), n \o CSV) : r \in RiNames, n \in {Items, FmXref}}

InitTools ==
    /\ \E fsys \in Filesystems(ToolsFileChoices, {}, {<<".">>, D}) :
          /\ files = fsys.files
          /\ dirs = fsys.dirs
          /\ before = fsys
    /\ archive = {}
    /\ pc = "start"
    /\ call = NoCall
    /\ result = Ok
    /\ invoked = {}
    /\ checked = {}
    /\ content = <<>>

\* check_conversion_tools(do_il), on an executable search path that resolves `resolvable`
CheckConversionTools ==
    /\ pc = "start"
    /\ \E do_il \in BOOLEAN, resolvable \in SUBSET {f.conversion_tool : f \in INPUT_FILES} :
          /\ result' \in check_conversion_tools(resolvable, do_il)
          /\ checked' = IF result' = Ok
                        THEN {f.conversion_tool : f \in ToolCheckedInputFiles(do_il)}
                        ELSE {}
          /\ call' = [call EXCEPT !.op = "check_conversion_tools", !.prev = call.op,
                                  !.tools_il = do_il]
    /\ pc' = IF result' = Ok THEN "tools" ELSE "failed"
    /\ UNCHANGED <<files, dirs, archive, before, invoked, content>>

NextTools == CheckConversionTools \/ CreateBinaryFiles

SpecTools == InitTools /\ [][NextTools]_vars

\* create_binary_files(_, _, do_il, do_ri) ran after check_conversion_tools(do_il) succeeded
ConvertedAfterToolCheck ==
    /\ call.op = "create_binary_files"
    /\ call.prev = "check_conversion_tools"
    /\ call.tools_il = call.do_il

\* C10: after a successful check_conversion_tools(do_il), create_binary_files
\* with the same do_il and any do_ri invokes only tools the check resolved.
C10_InvokedToolsWereChecked ==
    ConvertedAfterToolCheck => invoked \subseteq checked

----------------------------------------------------------------------------
(* Static Binary Materializer *)

\* Python's None
PyNone == <<"None">>

\* d.get(k): a dict is the set of its <<key, value>> pairs
Get(d, k) ==
    IF \E kv \in d : kv[1] = k THEN (CHOOSE kv \in d : kv[1] = k)[2] ELSE PyNone

\* not v, for v a string or None
Falsy(v) == v = PyNone \/ v = <<>>

\* the same without .lower()
FormatSetting_keep_case(setting_val) == ReplaceSpaces(setting_val)

\* setting_val.replace(' ', '_').lower()
FormatSetting(setting_val) == Lower(ReplaceSpaces(setting_val))

\* shutil.copyfile(src, dst) on files whose bytes are tracked
CopyContent(st, src, dst) ==
    LET from == NormPath(src)
        to == NormPath(dst)
    IN IF from \notin st.files \/ to \in st.dirs \/ ~IsDirIn(st.dirs, ParentOf(to))
       THEN [st EXCEPT !.result = Raise("OSError", src)]
       ELSE [st EXCEPT !.files = @ \cup {to},
                       !.content = [f \in st.files \cup {to} |->
                                       IF f = to THEN st.content[from] ELSE st.content[f]]]

\* _prepare_input_bin(run_dir, bin_name, model_settings, setting_key); an exception
\* raised by an earlier call has ended the operation
prepare_input_bin(st, run_dir, bin_name, model_settings, setting_key) ==
    LET bin_fp == PathJoin(PathJoin(run_dir, Sub_input), bin_name \o BIN)
        setting_val == Get(model_settings, setting_key)
        model_data_bin_fp ==
            IF Falsy(setting_val)
            THEN PathJoin(PathJoin(run_dir, Sub_static), bin_name \o BIN)
            ELSE PathJoin(PathJoin(run_dir, Sub_static),
                          bin_name \o <<"_">> \o FormatSetting(setting_val) \o BIN)
    IN IF st.result # Ok THEN st
       ELSE IF ExistsIn(st.files, st.dirs, bin_fp) THEN st
       ELSE IF ~ExistsIn(st.files, st.dirs, model_data_bin_fp)
       THEN [st EXCEPT !.result = Raise("Could not find data file", model_data_bin_fp)]
       ELSE CopyContent(st, model_data_bin_fp, bin_fp)

Key_model_settings == <<"m", "o", "d", "e", "l", "_", "s", "e", "t", "t", "i", "n", "g", "s">>

Key_event_set == <<"e", "v", "e", "n", "t", "_", "s", "e", "t">>

Key_event_occurrence_id == <<"e", "v", "e", "n", "t", "_", "o", "c", "c", "u", "r", "r", "e", "n", "c", "e",
                             "_", "i", "d">>

Role_events == <<"e", "v", "e", "n", "t", "s">>

Role_returnperiods == <<"r", "e", "t", "u", "r", "n", "p", "e", "r", "i", "o", "d", "s">>

Role_occurrence == <<"o", "c", "c", "u", "r", "r", "e", "n", "c", "e">>

Role_periods == <<"p", "e", "r", "i", "o", "d", "s">>

\* prepare_model_run_inputs(analysis_settings, run_dir)
prepare_model_run_inputs(st, analysis_settings, run_dir) ==
    LET model_settings == IF \E kv \in analysis_settings : kv[1] = Key_model_settings
                          THEN Get(analysis_settings, Key_model_settings) ELSE {}
        s1 == prepare_input_bin(st, run_dir, Role_events, model_settings, Key_event_set)
        s2 == prepare_input_bin(s1, run_dir, Role_returnperiods, model_settings, PyNone)
        s3 == prepare_input_bin(s2, run_dir, Role_occurrence, model_settings,
                                Key_event_occurrence_id)
    IN IF s3.result = Ok
          /\ ExistsIn(s3.files, s3.dirs,
                      PathJoin(PathJoin(run_dir, Sub_static), Role_periods \o BIN))
       THEN prepare_input_bin(s3, run_dir, Role_periods, model_settings, PyNone)
       ELSE s3

----------------------------------------------------------------------------
(* Packaging a directory of binaries, and preparing a run directory *)

RUN == <<"r", "u", "n">>

SRC == <<"s", "r", "c">>

MD == <<"m", "d">>

SettingsFile == <<"a", "s", ".", "j", "s", "o", "n">>

RunKtools == <<"r", "u", "n", "_", "k", "t", "o", "o", "l", "s", ".", "s", "h">>

HiddenBin == <<".">> \o Items \o BIN

RunFileChoices ==
    {PathJoin(D, Items \o BIN), PathJoin(D2, Items \o BIN)}
    \cup {PathJoin(PathJoin(D, r), Items \o BIN) : r \in RiNames}
    \cup {PathJoin(PathJoin(D, RiName(1)), HiddenBin)}
    \cup {PathJoin(SRC, Items \o CSV), PathJoin(SRC, RiLayersJson)}
    \cup {PathJoin(PathJoin(SRC, r), Items \o CSV) : r \in RiNames}
    \cup {PathJoin(RUN, RunKtools), PathJoin(MD, Events \o BIN)}

RunDirChoices == {PathJoin(D, r) : r \in RiNames}

InitRun ==
    /\ \E fsys \in Filesystems(RunFileChoices, RunDirChoices, {<<".">>, D, SRC, MD}) :
          /\ files = fsys.files \cup {SettingsFile}
          /\ dirs = fsys.dirs
          /\ before = [fsys EXCEPT !.files = @ \cup {SettingsFile}]
    /\ archive = {}
    /\ pc = "start"
    /\ call = NoCall
    /\ result = Ok
    /\ invoked = {}
    /\ checked = {}
    /\ content = <<>>

\* prepare_model_run_directory(RUN, ...), with the archive just packaged when there is one
PrepareRunDirectory ==
    /\ pc \in {"start", "packaged"}
    /\ \E oasis_files_src_path \in {<<>>, SRC}, ri \in BOOLEAN,
          analysis_settings_json_src_file_path \in {<<>>, SettingsFile},
          model_data_src_path \in {<<>>, MD} :
          LET inputs_archive == IF pc = "packaged" THEN PathJoin(D, TAR_FILE) ELSE <<>>
          IN /\ \E st \in prepare_model_run_directory(
                              files, dirs, archive, RUN, oasis_files_src_path, ri,
                              analysis_settings_json_src_file_path, model_data_src_path,
                              inputs_archive) :
                   /\ files' = st.files
                   /\ dirs' = st.dirs
                   /\ result' = st.result
                   /\ pc' = IF st.result = Ok THEN "prepared" ELSE "failed"
             /\ call' = [call EXCEPT
                           !.op = "prepare_model_run_directory", !.prev = call.op,
                           !.oasis_files_src_path = oasis_files_src_path, !.ri = ri,
                           !.analysis_settings_json_src_file_path =
                               analysis_settings_json_src_file_path,
                           !.model_data_src_path = model_data_src_path,
                           !.inputs_archive = inputs_archive]
    /\ UNCHANGED <<archive, before, invoked, checked, content>>

NextRun == CreateBinaryTarFile("start") \/ PrepareRunDirectory

SpecRun == InitRun /\ [][NextRun]_vars

\* the names of the *.bin files directly in the directory l
BinNames(fs, l) == {Basename(f) : f \in {g \in fs : ParentOf(g) = l /\ EndsWith(g, BIN)}}

\* those whose name does not begin with a dot
VisibleBinNames(fs, l) == {n \in BinNames(fs, l) : Head(n) # "."}

\* the archive of D was expanded by prepare_model_run_directory(RUN, inputs_archive=...)
\* into a run directory that did not exist
RoundTrip ==
    /\ pc = "prepared"
    /\ call.inputs_archive # <<>>
    /\ call.oasis_files_src_path = <<>>
    /\ Subtree(before.files \cup before.dirs, RUN) = {}

RunSubdirs == {Sub_fifo, Sub_input, Sub_output, Sub_static, Sub_work}

HasRunLayout ==
    {PathJoin(RUN, s) : s \in {Sub_fifo, Sub_output, Sub_static, Sub_work}}
        \cup {PathJoin(PathJoin(RUN, Sub_input), Sub_csv)} \subseteq dirs

CopiedSettings ==
    IF call.analysis_settings_json_src_file_path # <<>> THEN {AnalysisSettingsJson} ELSE {}

\* prepare_model_run_directory(RUN, ..., ri=False, ...) completed
PreparedWithoutRi == pc = "prepared" /\ ~call.ri

\* C7, where nothing but the operation's own directories can be at the top level (the run
\* directory did not exist and no source files are given): after a completed non-RI
\* preparation the run directory holds the directories fifo, input/csv, output, static
\* and work, and its top-level entries are those five plus analysis_settings.json when
\* one was copied.
C7_RunLayoutExact ==
    (/\ PreparedWithoutRi
     /\ Subtree(before.files \cup before.dirs, RUN) = {}
     /\ call.oasis_files_src_path = <<>>) =>
        /\ HasRunLayout
        /\ ListdirIn(files, dirs, RUN) = RunSubdirs \cup CopiedSettings

----------------------------------------------------------------------------
(* Materializing the static binaries of a prepared run directory *)

HistoricalSet == <<"H", "i", "s", "t", "o", "r", "i", "c", "a", "l", " ", "S", "e", "t">>

LT == <<"L", "T">>

\* the settings values as the file names of the static pool spell them
NameOfSetting(v) ==
    CASE v = HistoricalSet ->
            <<"h", "i", "s", "t", "o", "r", "i", "c", "a", "l", "_", "s", "e", "t">>
      [] v = LT -> <<"l", "t">>
      [] OTHER -> v

StaticOf(name) == PathJoin(PathJoin(RUN, Sub_static), name \o BIN)

InputOf(name) == PathJoin(PathJoin(RUN, Sub_input), name \o BIN)

Roles == <<Role_events, Role_returnperiods, Role_occurrence, Role_periods>>

SettingKeyOf(role) ==
    CASE role = Role_events -> Key_event_set
      [] role = Role_occurrence -> Key_event_occurrence_id
      [] OTHER -> PyNone

InputsFileChoices ==
    {StaticOf(Roles[i]) : i \in 1..Len(Roles)}
    \cup {InputOf(Roles[i]) : i \in 1..Len(Roles)}
    \cup {StaticOf(Role_events \o <<"_">> \o NameOfSetting(HistoricalSet)),
          StaticOf(Role_events \o <<"_">>),
          StaticOf(Role_occurrence \o <<"_">> \o NameOfSetting(LT))}

\* the model_settings documents: each key left out, null, empty or given a value
ModelSettings ==
    {es \cup eo :
        es \in {{}} \cup {{<<Key_event_set, v>>} : v \in {PyNone, <<>>, HistoricalSet}},
        eo \in {{}} \cup {{<<Key_event_occurrence_id, v>>} : v \in {LT}}}

AnalysisSettings == {{}} \cup {{<<Key_model_settings, ms>>} : ms \in ModelSettings}

InitInputs ==
    /\ \E fsys \in Filesystems(InputsFileChoices, {},
                              {<<".">>, RUN, PathJoin(RUN, Sub_input),
                               PathJoin(RUN, Sub_static)}) :
          /\ files = fsys.files
          /\ dirs = fsys.dirs
          /\ content = [f \in fsys.files |-> f]
          /\ before = [files |-> fsys.files, dirs |-> fsys.dirs,
                       content |-> [f \in fsys.files |-> f],
                       analysis_settings |-> {}]
    /\ archive = {}
    /\ pc = "start"
    /\ call = NoCall
    /\ result = Ok
    /\ invoked = {}
    /\ checked = {}

\* prepare_model_run_inputs(analysis_settings, RUN); a second call repeats the first
PrepareModelRunInputs ==
    /\ pc \in {"start", "materialized"}
    /\ \E analysis_settings \in IF pc = "start" THEN AnalysisSettings
                                ELSE {before.analysis_settings} :
          LET st == prepare_model_run_inputs(
                        [files |-> files, dirs |-> dirs, content |-> content, result |-> Ok],
                        analysis_settings, RUN)
          IN /\ files' = st.files
             /\ dirs' = st.dirs
             /\ content' = st.content
             /\ result' = st.result
             /\ pc' = IF st.result # Ok THEN "failed"
                      ELSE IF pc = "start" THEN "materialized" ELSE "repeated"
             /\ before' = [before EXCEPT !.analysis_settings = analysis_settings]
    /\ call' = [call EXCEPT !.op = "prepare_model_run_inputs", !.prev = call.op]
    /\ UNCHANGED <<archive, invoked, checked>>

NextInputs == PrepareModelRunInputs

SpecInputs == InitInputs /\ [][NextInputs]_vars

\* the value model_settings holds for the role's setting key, None when it holds none
SettingOf(role) ==
    IF \E kv \in before.analysis_settings : kv[1] = Key_model_settings
    THEN Get(Get(before.analysis_settings, Key_model_settings), SettingKeyOf(role))
    ELSE PyNone

\* the roles the operation is about: periods only when static/periods.bin exists
RolesHandled ==
    {i \in 1..Len(Roles) : Roles[i] = Role_periods => StaticOf(Role_periods) \in before.files}

SuffixedSource(role) == StaticOf(role \o <<"_">> \o NameOfSetting(SettingOf(role)))

\* the one source path tried for the role, un-suffixed when its setting is one of unset
SourceOf(role, unset) ==
    IF SettingOf(role) \in unset THEN StaticOf(role) ELSE SuffixedSource(role)

\* a setting that is absent or null
Unset == {PyNone}

\* one that is absent, null or the empty string
UnsetOrEmpty == {PyNone, <<>>}

Materialized == pc \in {"materialized", "failed"} /\ call.prev = "none"

Unchanged(role) ==
    /\ InputOf(role) \in files
    /\ content[InputOf(role)] = before.content[InputOf(role)]

CopiedFrom(role, src) ==
    /\ InputOf(role) \in files
    /\ content[InputOf(role)] = before.content[src]

FailedOn(role, src) ==
    /\ result = Raise("Could not find data file", src)
    /\ InputOf(role) \notin files

\* the role needs a source that is absent
Lacks(role, unset) ==
    InputOf(role) \notin before.files /\ SourceOf(role, unset) \notin before.files

\* what the operation did for each role: an existing input/<role>.bin is unchanged; after
\* an earlier role's failure nothing is made; a role whose source is absent fails the
\* operation, which names the source and makes no input/<role>.bin; otherwise the source
\* is copied to input/<role>.bin
OneSourcePerRole(unset) ==
    \A i \in RolesHandled :
        IF InputOf(Roles[i]) \in before.files THEN Unchanged(Roles[i])
        ELSE IF \E j \in RolesHandled : j < i /\ Lacks(Roles[j], unset)
        THEN InputOf(Roles[i]) \notin files
        ELSE IF Lacks(Roles[i], unset)
        THEN FailedOn(Roles[i], SourceOf(Roles[i], unset))
        ELSE CopiedFrom(Roles[i], SourceOf(Roles[i], unset))

\* C9 as stated: for each role whose input/<role>.bin does not yet exist, one source path
\* is tried, static/<role>.bin when the setting is unset and the suffixed name otherwise;
\* if it is absent the operation fails naming it and input/<role>.bin is not created,
\* otherwise it is copied to input/<role>.bin; an existing input/<role>.bin is unchanged.
\* (The roles are taken in the order events, returnperiods, occurrence, periods, and the
\* first failure ends the operation.)
C9_OneSourcePerRole == Materialized => OneSourcePerRole(Unset)

\* C9 as amended: the same with static/<role>.bin tried when the setting is unset or is
\* the empty string, and the suffixed name tried for any other string.
C9_OneSourcePerRoleUnsetOrEmpty ==
    Materialized =>
        /\ OneSourcePerRole(UnsetOrEmpty)
        /\ result = Ok <=> \A i \in RolesHandled : ~Lacks(Roles[i], UnsetOrEmpty)

\* C9's cases: a suffixed source copied while a later role fails on its own source
C9_Witness ==
    /\ Materialized
    /\ SettingOf(Role_events) = HistoricalSet
    /\ StaticOf(Role_events) \in before.files
    /\ InputOf(Role_events) \notin before.files
    /\ SuffixedSource(Role_events) \in before.files
    /\ CopiedFrom(Role_events, SuffixedSource(Role_events))
    /\ FailedOn(Role_returnperiods, StaticOf(Role_returnperiods))

====
